---- MODULE Spec2Model ----
(***************************************************************************)
(* Lunari: cycle prediction arithmetic (PeriodPredictionService) and the   *)
(* callers that feed it.                                                   *)
(*                                                                         *)
(* Representation.                                                         *)
(*  - An ISO date string "YYYY-MM-DD" is the tuple <<y, m, d>>.            *)
(*  - The string produced by Date.toLocaleDateString() is the record       *)
(*    [month, day, year] (the "M/D/YYYY" rendering).                       *)
(*  - A Date object is its time value, counted in hours since              *)
(*    1970-01-01T00:00Z; the source's 1000*60*60*24 ms is HoursPerDay.     *)
(*  - The host's local time zone is UTC, so the local calendar fields of   *)
(*    a Date (getDate, setDate, toLocaleDateString) are its UTC fields.    *)
(*  - A JavaScript double x is the pair <<A, E>> with                      *)
(*        x = A/10 + E/(5 * 2^55)       (exactly),                         *)
(*    which holds every double this arithmetic produces (weights in        *)
(*    tenths, whole days) with small integers; FRound is IEEE-754          *)
(*    round-to-nearest-even on that representation.                        *)
(*  - null, undefined and an omitted argument are <<>>; a value v that     *)
(*    may be absent is <<v>>.                                              *)
(*  - A MarkedDates object is a function from its keys (ISO date strings)  *)
(*    to markings; a style property that is not set is "".                 *)
(***************************************************************************)
EXTENDS Integers, Sequences, FiniteSets

\* 1000 * 60 * 60 * 24 milliseconds, in the model's unit of time (hours)
HoursPerDay == 24

(***************************************************************************)
(* Calendar arithmetic of the Date built-in                                *)
(***************************************************************************)
IsLeapYear(y) == (y % 4 = 0 /\ y % 100 # 0) \/ y % 400 = 0

DaysInMonth(y, m) ==
  IF m = 2 THEN (IF IsLeapYear(y) THEN 29 ELSE 28)
  ELSE IF m \in {4, 6, 9, 11} THEN 30 ELSE 31

\* days from 1970-01-01 to January 1st of year y
DaysBeforeYear(y) ==
  365 * (y - 1970) + (((y - 1) \div 4) - 492) - (((y - 1) \div 100) - 19)
    + (((y - 1) \div 400) - 4)

RECURSIVE DaysBeforeMonth(_, _)
DaysBeforeMonth(y, m) ==
  IF m <= 1 THEN 0 ELSE DaysBeforeMonth(y, m - 1) + DaysInMonth(y, m - 1)

\* MakeDay: the day number of year y, month m (1..12), day-of-month d, where
\* d may lie outside the month (setDate and the Date constructor roll over)
MakeDay(y, m, d) == DaysBeforeYear(y) + DaysBeforeMonth(y, m) + (d - 1)

RECURSIVE YearFrom(_, _)
YearFrom(day, y) == IF day < DaysBeforeYear(y + 1) THEN y ELSE YearFrom(day, y + 1)

\* the search starts at a year that is not after the year of the day: a
\* year has at most 366 days from 1970 on and at least 365 before
YearOfDay(day) ==
  YearFrom(day, IF day >= 0 THEN 1970 + (day \div 366) ELSE 1969 + (day \div 365))

RECURSIVE MonthFrom(_, _, _)
MonthFrom(rest, y, m) ==
  IF rest < DaysInMonth(y, m) THEN m ELSE MonthFrom(rest - DaysInMonth(y, m), y, m + 1)

MonthOfDay(day) == MonthFrom(day - DaysBeforeYear(YearOfDay(day)), YearOfDay(day), 1)

DateOfDay(day) ==
  day - DaysBeforeYear(YearOfDay(day)) - DaysBeforeMonth(YearOfDay(day), MonthOfDay(day)) + 1

\* floor division for a positive divisor (Math.floor of a quotient)
FloorDiv(a, b) == a \div b

\* Math.ceil of a quotient with a positive divisor
CeilDiv(a, b) == 0 - ((0 - a) \div b)

\* new Date("YYYY-MM-DD").getTime(): midnight UTC of that calendar day
ParseISO(s) == MakeDay(s[1], s[2], s[3]) * HoursPerDay

\* Date.prototype.getDate(): the day of the month
GetDate(t) == DateOfDay(FloorDiv(t, HoursPerDay))

\* Date.prototype.setDate(n): same year, month and time of day, day-of-month n
SetDate(t, n) ==
  LET day == FloorDiv(t, HoursPerDay)
  IN  MakeDay(YearOfDay(day), MonthOfDay(day), n) * HoursPerDay + (t % HoursPerDay)

\* Date.prototype.toLocaleDateString(): "M/D/YYYY"
ToLocaleDateString(t) ==
  LET day == FloorDiv(t, HoursPerDay)
  IN  [month |-> MonthOfDay(day), day |-> DateOfDay(day), year |-> YearOfDay(day)]

\* new Date("M/D/YYYY").getTime(): local midnight of that calendar day
ParseLocale(s) == MakeDay(s.year, s.month, s.day) * HoursPerDay

(***************************************************************************)
(* IEEE-754 double arithmetic on <<A, E>> = A/10 + E/(5 * 2^55)            *)
(***************************************************************************)
RECURSIVE Pow2(_)
Pow2(n) == IF n <= 0 THEN 1 ELSE 2 * Pow2(n - 1)

\* 2^k mod 5
Pow2Mod5(k) == <<1, 2, 4, 3>>[(k % 4) + 1]

\* x >= 2^p
FGeqPow2(x, p) ==
  LET l == IF p >= 0 THEN x[1] ELSE x[1] * Pow2(0 - p)
      r == IF p >= 0 THEN 10 * Pow2(p) ELSE 10
  IN  l > r \/ (l = r /\ x[2] >= 0)

\* the binary exponent of x: the largest p >= -3 with 2^p <= x
RECURSIVE FExponent(_, _)
FExponent(x, p) == IF FGeqPow2(x, p + 1) THEN FExponent(x, p + 1) ELSE p

FNeg(x) == <<0 - x[1], 0 - x[2]>>

FIsNegative(x) == x[1] < 0 \/ (x[1] = 0 /\ x[2] < 0)

\* the double nearest to the positive real number <<A, E>> (ties to even)
FRoundPositive(x) ==
    LET p    == FExponent(x, 0 - 3)
        ulp  == Pow2(p + 3)
        a5   == ((x[1] % 5) * Pow2Mod5(51 - p)) % 5
        r    == (ulp * a5 + x[2]) % (5 * ulp)
        b5   == ((x[1] % 5) * Pow2Mod5(50 - p)) % 5
        even == ((2 * ulp * b5 + x[2] - r) % (10 * ulp)) = 0
        down == <<x[1], x[2] - r>>
        up   == <<x[1], x[2] - r + 5 * ulp>>
    IN  IF 2 * r < 5 * ulp THEN down
        ELSE IF 2 * r > 5 * ulp THEN up
        ELSE IF even THEN down ELSE up

\* the double nearest to the real number <<A, E>>; rounding is symmetric in
\* the sign and 0 stays 0
FRound(x) ==
  IF x[1] = 0 /\ x[2] = 0 THEN x
  ELSE IF FIsNegative(x) THEN FNeg(FRoundPositive(FNeg(x)))
  ELSE FRoundPositive(x)

FInt(n) == <<10 * n, 0>>

\* the literal 0.2
F02 == FRound(<<2, 0>>)

\* n * x for an integer n
FMulInt(n, x) == FRound(<<n * x[1], n * x[2]>>)

FAdd(x, y) == FRound(<<x[1] + y[1], x[2] + y[2]>>)

FSub(x, y) == FRound(<<x[1] - y[1], x[2] - y[2]>>)

FLess(x, y) == x[1] < y[1] \/ (x[1] = y[1] /\ x[2] < y[2])

\* Math.max
FMax(x, y) == IF FLess(x, y) THEN y ELSE x

\* the binary exponent of |m - 1/2|, for an integer m
RECURSIVE HalfExponent(_, _)
HalfExponent(m, p) ==
  IF (IF 2 * m - 1 < 0 THEN 1 - 2 * m ELSE 2 * m - 1) >= 2 * Pow2(p + 1)
  THEN HalfExponent(m, p + 1) ELSE p

\* fl(t / w) >= m - 1/2, for doubles t and w > 0 and an integer m: the
\* quotient rounds to a double >= m - 1/2 exactly when the real quotient is
\* at least m - 1/2 minus half a unit in the last place of m - 1/2
FQuotientGeqHalf(t, w, m) ==
  LET ph == HalfExponent(m, 0 - 1)
      d  == 2 * t[1] - (2 * m - 1) * w[1]
      f  == 2 * t[2] - (2 * m - 1) * w[2] + w[1] * Pow2(ph + 2)
  IN  IF d # 0 THEN d > 0
      ELSE IF f # 0 THEN f > 0
      ELSE w[2] >= 0

\* Math.round(t / w): the integer m with m - 1/2 <= fl(t / w) < m + 1/2
MathRoundQuotient(t, w) ==
  LET m0 == (2 * t[1] + w[1]) \div (2 * w[1])
  IN  CHOOSE m \in (m0 - 1)..(m0 + 1) :
        FQuotientGeqHalf(t, w, m) /\ ~FQuotientGeqHalf(t, w, m + 1)

(***************************************************************************)
(* PeriodPredictionService.getAverageCycleLength                           *)
(***************************************************************************)
Abs(n) == IF n < 0 THEN 0 - n ELSE n

Min(a, b) == IF a < b THEN a ELSE b

Last(s) == s[Len(s)]

\* the comparator (a, b) => new Date(b).getTime() - new Date(a).getTime()
CompareDescending(a, b) == ParseISO(b) - ParseISO(a)

\* x placed into an already sorted list behind every element that does not
\* compare greater than it (Array.prototype.sort is stable)
RECURSIVE InsertSorted(_, _)
InsertSorted(x, s) ==
  IF s = <<>> THEN <<x>>
  ELSE IF CompareDescending(Head(s), x) > 0 THEN <<x>> \o s
  ELSE <<Head(s)>> \o InsertSorted(x, Tail(s))

RECURSIVE SortInto(_, _)
SortInto(s, acc) ==
  IF s = <<>> THEN acc ELSE SortInto(Tail(s), InsertSorted(Head(s), acc))

\* the list left in the order it was passed
SortDescendingOmitted(s) == s

\* dates.sort((a, b) => new Date(b).getTime() - new Date(a).getTime())
SortDescending(s) == SortInto(s, <<>>)

\* the comparison written as dayDiff < 7
WithinSevenDaysStrict(a, b) == Abs(ParseISO(a) - ParseISO(b)) < 7 * HoursPerDay

\* Math.abs((new Date(a).getTime() - new Date(b).getTime()) / day) <= 7
WithinSevenDays(a, b) == Abs(ParseISO(a) - ParseISO(b)) <= 7 * HoursPerDay

\* the loop with each date compared to the newest date of the open period
RECURSIVE GroupLoopAnchored(_, _, _, _)
GroupLoopAnchored(sorted, i, done, currentPeriod) ==
  IF i > Len(sorted) THEN Append(done, currentPeriod)
  ELSE IF WithinSevenDays(sorted[i], currentPeriod[1])
       THEN GroupLoopAnchored(sorted, i + 1, done, Append(currentPeriod, sorted[i]))
       ELSE GroupLoopAnchored(sorted, i + 1, Append(done, currentPeriod), <<sorted[i]>>)

\* the grouping loop: sorted[i] joins the current period or opens a new one
RECURSIVE GroupLoop(_, _, _, _)
GroupLoop(sorted, i, done, currentPeriod) ==
  IF i > Len(sorted) THEN Append(done, currentPeriod)
  ELSE IF WithinSevenDays(sorted[i], sorted[i - 1])
       THEN GroupLoop(sorted, i + 1, done, Append(currentPeriod, sorted[i]))
       ELSE GroupLoop(sorted, i + 1, Append(done, currentPeriod), <<sorted[i]>>)

\* the grouping without the push of the last open period
GroupPeriodsUnflushed(sorted) ==
  LET all == GroupLoop(sorted, 2, <<>>, <<sorted[1]>>)
  IN  SubSeq(all, 1, Len(all) - 1)

\* the periods of a non-empty list sorted in descending order
GroupPeriods(sorted) == GroupLoop(sorted, 2, <<>>, <<sorted[1]>>)

\* every gap weighted alike
WeightUniform(cycles) == FInt(1)

\* Math.max(1 - (cycles * 0.2), 0.2)
Weight(cycles) == FMax(FSub(FInt(1), FMulInt(cycles, F02)), F02)

\* the gap measured from the newest date of period i + 1
PeriodGapFromNewest(ps, i) ==
  FloorDiv(ParseISO(Last(ps[i])) - ParseISO(ps[i + 1][1]), HoursPerDay)

\* whole days from the start of period i + 1 to the start of period i
PeriodGap(ps, i) ==
  FloorDiv(ParseISO(Last(ps[i])) - ParseISO(Last(ps[i + 1])), HoursPerDay)

\* one period more than the source reads
MaxPeriodsPlusOne == 6 + 1

\* Math.min(periods.length, 6): at most 6 periods, so 5 gaps, are read
MaxPeriods == 6

\* the loop for (let i = 1; i < Math.min(periods.length, 6); i++), with the
\* source's 0-based i on the 1-based sequence ps
RECURSIVE WeightedLoop(_, _, _, _, _)
WeightedLoop(ps, i, weightedTotal, weightSum, cycles) ==
  IF i < Min(Len(ps), MaxPeriods)
  THEN WeightedLoop(ps, i + 1,
                    FAdd(weightedTotal, FMulInt(PeriodGap(ps, i), Weight(cycles))),
                    FAdd(weightSum, Weight(cycles)),
                    cycles + 1)
  ELSE [weightedTotal |-> weightedTotal, weightSum |-> weightSum, cycles |-> cycles]

WeightedAverage(ps) ==
  LET r == WeightedLoop(ps, 1, <<0, 0>>, <<0, 0>>, 0)
  IN  IF r.cycles > 0 THEN MathRoundQuotient(r.weightedTotal, r.weightSum) ELSE 28

\* the return value of getAverageCycleLength(ds)
GetAverageCycleLength(ds) ==
  IF Len(ds) < 2 THEN 28 ELSE WeightedAverage(GroupPeriods(SortDescending(ds)))

\* the caller's array after getAverageCycleLength(ds): sort() works in place
ArrayAfterAverage(ds) == IF Len(ds) < 2 THEN ds ELSE SortDescending(ds)

\* the local variable periods when getAverageCycleLength(ds) returns
PeriodsOfAverage(ds) == IF Len(ds) < 2 THEN <<>> ELSE GroupPeriods(SortDescending(ds))

(***************************************************************************)
(* getPrediction, getOvulationDay, getFertilityWindow                      *)
(*                                                                         *)
(* An optional argument is <<>> when omitted and <<n>> when given.         *)
(***************************************************************************)
\* cycleLength || 28
OrDefault(cycleLength) ==
  IF cycleLength = <<>> THEN 28
  ELSE IF cycleLength[1] = 0 THEN 28
  ELSE cycleLength[1]

\* the days until the forecast, shown as 0 once the forecast has passed
GetPredictionClamped(startDate, allDates, today) ==
  LET cycleLength == GetAverageCycleLength(allDates)
      nextPeriod  == SetDate(ParseISO(startDate), GetDate(ParseISO(startDate)) + cycleLength)
      daysUntil   == CeilDiv(nextPeriod - today, HoursPerDay)
  IN  [days |-> IF daysUntil < 0 THEN 0 ELSE daysUntil,
       date |-> ToLocaleDateString(nextPeriod),
       cycleLength |-> cycleLength]

\* getPrediction(startDate, allDates), with today = new Date() read at the call
GetPrediction(startDate, allDates, today) ==
  LET cycleLength == GetAverageCycleLength(allDates)
      nextPeriod  == SetDate(ParseISO(startDate), GetDate(ParseISO(startDate)) + cycleLength)
      daysUntil   == CeilDiv(nextPeriod - today, HoursPerDay)
  IN  [days |-> daysUntil,
       date |-> ToLocaleDateString(nextPeriod),
       cycleLength |-> cycleLength]

\* ovulation placed in the middle of the cycle
GetOvulationDayMidCycle(startDate, cycleLength) ==
  LET start              == ParseISO(startDate)
      length             == OrDefault(cycleLength)
      ovulationDayOffset == length \div 2
      ovulationDate      == SetDate(start, GetDate(start) + ovulationDayOffset)
  IN  ToLocaleDateString(ovulationDate)

\* getOvulationDay(startDate, cycleLength?)
GetOvulationDay(startDate, cycleLength) ==
  LET start              == ParseISO(startDate)
      length             == OrDefault(cycleLength)
      ovulationDayOffset == length - 14
      ovulationDate      == SetDate(start, GetDate(start) + ovulationDayOffset)
  IN  ToLocaleDateString(ovulationDate)

\* the window start kept inside the month of the ovulation day
GetFertilityWindowSameMonth(startDate, cycleLength) ==
  LET cycle         == OrDefault(cycleLength)
      ovulationDay  == GetOvulationDay(startDate, <<cycle>>)
      ovulationDate == ParseLocale(ovulationDay)
      startWindow   == SetDate(ovulationDate,
                               IF GetDate(ovulationDate) - 5 < 1 THEN 1
                               ELSE GetDate(ovulationDate) - 5)
  IN  [start |-> ToLocaleDateString(startWindow),
       end |-> ovulationDay,
       ovulationDay |-> ovulationDay]

\* getFertilityWindow(startDate, cycleLength?)
GetFertilityWindow(startDate, cycleLength) ==
  LET cycle         == OrDefault(cycleLength)
      ovulationDay  == GetOvulationDay(startDate, <<cycle>>)
      ovulationDate == ParseLocale(ovulationDay)
      startWindow   == SetDate(ovulationDate, GetDate(ovulationDate) - 5)
  IN  [start |-> ToLocaleDateString(startWindow),
       end |-> ovulationDay,
       ovulationDay |-> ovulationDay]

(***************************************************************************)
(* getCurrentCycleDay, getCyclePhase, getPregnancyChance, getCycleInfo     *)
(*                                                                         *)
(* A string that is not a date gives an Invalid Date, whose time value is  *)
(* NaN; every arithmetic result on NaN is NaN and every comparison with    *)
(* NaN is false.  The strings passed are calendar dates or have a month    *)
(* outside 1..12.                                                          *)
(***************************************************************************)
NaN == "NaN"

\* new Date(s) is a valid Date: the month is 1..12 and the day 1..31; a day
\* the month does not have rolls into the next month (ParseISO)
IsDateString(s) == s[2] \in 1..12 /\ s[3] \in 1..31

\* the result held at 1 when the reference day lies before the start
GetCurrentCycleDayClamped(startDate, currentDate, now) ==
  LET start   == ParseISO(startDate)
      current == IF currentDate # <<>> THEN ParseISO(currentDate[1]) ELSE now
      dayDiff == FloorDiv(current - start, HoursPerDay)
  IN  IF ~IsDateString(startDate) THEN NaN
      ELSE IF currentDate # <<>> /\ ~IsDateString(currentDate[1]) THEN NaN
      ELSE IF dayDiff < 0 THEN 1
      ELSE dayDiff + 1

\* getCurrentCycleDay(startDate, currentDate?), with now = new Date() read
\* when currentDate is omitted
GetCurrentCycleDay(startDate, currentDate, now) ==
  LET start   == ParseISO(startDate)
      current == IF currentDate # <<>> THEN ParseISO(currentDate[1]) ELSE now
      dayDiff == FloorDiv(current - start, HoursPerDay)
  IN  IF ~IsDateString(startDate) THEN NaN
      ELSE IF currentDate # <<>> /\ ~IsDateString(currentDate[1]) THEN NaN
      ELSE dayDiff + 1

\* the comparisons written with < in place of <=
GetCyclePhaseStrict(cycleDay) ==
  IF cycleDay < 5 THEN "Menstrual"
  ELSE IF cycleDay < 10 THEN "Follicular"
  ELSE IF cycleDay < 14 THEN "Ovulatory"
  ELSE IF cycleDay < 28 THEN "Luteal"
  ELSE "Extended"

\* getCyclePhase(cycleDay), for a number cycleDay
GetCyclePhase(cycleDay) ==
  IF cycleDay <= 5 THEN "Menstrual"
  ELSE IF cycleDay <= 10 THEN "Follicular"
  ELSE IF cycleDay <= 14 THEN "Ovulatory"
  ELSE IF cycleDay <= 28 THEN "Luteal"
  ELSE "Extended"

\* getPhaseDescription(phase)
GetPhaseDescription(phase) ==
  CASE phase = "Menstrual" ->
         "Your period is happening. You might experience cramps, fatigue, and mood changes. Focus on rest and self-care."
    [] phase = "Follicular" ->
         "Energy levels start to rise with increasing estrogen. Good time for starting new projects and physical activity."
    [] phase = "Ovulatory" ->
         "Peak fertility window. You might notice increased energy, better mood, and heightened sex drive."
    [] phase = "Luteal" ->
         "Progesterone rises. You might experience PMS symptoms like bloating or mood changes. Focus on gentle exercise and comfort."
    [] phase = "Extended" ->
         "Your cycle has gone longer than typical. Consider tracking any symptoms and consulting your healthcare provider if this persists."
    [] OTHER -> ""

\* the chance read off the phase: High in the Ovulatory phase only
GetPregnancyChanceByPhase(cycleDay) ==
  IF GetCyclePhase(cycleDay) = "Ovulatory" THEN "High"
  ELSE IF (cycleDay >= 8 /\ cycleDay <= 10) \/ (cycleDay >= 18 /\ cycleDay <= 20) THEN "Medium"
  ELSE "Low"

\* getPregnancyChance(cycleDay), for a number cycleDay
GetPregnancyChance(cycleDay) ==
  IF cycleDay >= 11 /\ cycleDay <= 17 THEN "High"
  ELSE IF (cycleDay >= 8 /\ cycleDay <= 10) \/ (cycleDay >= 18 /\ cycleDay <= 20) THEN "Medium"
  ELSE "Low"

\* getCycleInfo(startDate, currentDate?, cycleLength?); cycleLength is not
\* read.  With cycleDay NaN every comparison of getCyclePhase and of
\* getPregnancyChance is false, which leaves their last return.
GetCycleInfo(startDate, currentDate, cycleLength, now) ==
  LET cycleDay == GetCurrentCycleDay(startDate, currentDate, now)
      isNaN    == \/ ~IsDateString(startDate)
                  \/ (currentDate # <<>> /\ ~IsDateString(currentDate[1]))
      phase    == IF isNaN THEN "Extended" ELSE GetCyclePhase(cycleDay)
  IN  [phase |-> phase,
       description |-> GetPhaseDescription(phase),
       cycleDay |-> cycleDay,
       pregnancyChance |-> IF isNaN THEN "Low" ELSE GetPregnancyChance(cycleDay)]

(***************************************************************************)
(* The date lists the callers pass                                         *)
(***************************************************************************)
\* the number of logged days the lists are drawn from
NumDates == 11

\* the longest list in which every order and every repetition is tried
MaxShortLen == 3

\* days on which a period was logged, oldest first (2024 is a leap year)
LoggedDays ==
  << <<2024, 1, 20>>, <<2024, 1, 28>>, <<2024, 2, 5>>, <<2024, 2, 15>>,
     <<2024, 2, 18>>, <<2024, 2, 27>>, <<2024, 3, 5>>, <<2024, 3, 6>>,
     <<2024, 3, 7>>, <<2024, 3, 15>>, <<2024, 3, 26>>, <<2024, 4, 7>>,
     <<2024, 4, 16>>, <<2024, 4, 27>> >>

\* the logged days at the positions I, oldest first
RECURSIVE AscendingFrom(_, _)
AscendingFrom(I, i) ==
  IF i > Len(LoggedDays) THEN <<>>
  ELSE (IF i \in I THEN <<LoggedDays[i]>> ELSE <<>>) \o AscendingFrom(I, i + 1)

Reverse(s) == [i \in 1..Len(s) |-> s[Len(s) + 1 - i]]

\* the entries at odd positions, then those at even positions
Interleave(s) ==
  LET n == Len(s)
      h == (n + 1) \div 2
  IN  [i \in 1..n |-> IF i <= h THEN s[2 * i - 1] ELSE s[2 * (i - h)]]

\* a set of logged days in three orders
Orderings(I) ==
  { AscendingFrom(I, 1), Reverse(AscendingFrom(I, 1)), Interleave(AscendingFrom(I, 1)) }

OrderedLists == UNION { Orderings(I) : I \in SUBSET (1..Min(NumDates, Len(LoggedDays))) }

ShortDays == { LoggedDays[i] : i \in 5..8 }

ShortLists == UNION { [1..n -> ShortDays] : n \in 0..MaxShortLen }

InputLists == OrderedLists \cup ShortLists

(***************************************************************************)
(* The state                                                               *)
(***************************************************************************)
VARIABLES
  dates,             \* the array a caller passes to the service
  call,              \* the last call or handler run, with its inputs
  ret,               \* what the last call returned
  periods,           \* the local periods of the last grouping
  store,             \* the rows of the periodDates table, in insertion order
  selectedDates,     \* CalendarScreen state: the logged days, marked
  markedDates,       \* CalendarScreen state
  baseMarkedDates,   \* CalendarScreen state: logged, predicted and today's marks
  firstPeriodDate,   \* CalendarScreen state: start of the most recent period
  cycleDay,          \* CalendarScreen state
  selectedDate,      \* CalendarScreen state
  currentDate,       \* CalendarScreen state: the day the screen was mounted
  inFlight,          \* loadData calls waiting at their select, oldest first, each
                     \* with the rows the select read
  reloads,           \* reloadData calls resumed after loadData, setSelectedDate to come
  committed,         \* selectedDate and firstPeriodDate as the effects last saw them
  scheduled,         \* what the next commit carries besides changed values: "mount"
                     \* the first commit, "base" a new baseMarkedDates object,
                     \* "event" updates made inside an event handler
  save,              \* savePeriodDates: where the running call stands
  completedCycles,       \* Stats state
  averageCycleLength,    \* Stats state
  averagePeriodLength,   \* Stats state
  cycleHistory,          \* Stats state
  statsInFlight          \* loadStatistics calls waiting at their select, oldest first

screenVars == <<store, selectedDates, markedDates, baseMarkedDates, firstPeriodDate,
                cycleDay, selectedDate, currentDate, inFlight, reloads, committed,
                scheduled, save>>

statsVars == <<completedCycles, averageCycleLength, averagePeriodLength, cycleHistory,
               statsInFlight>>

vars == <<dates, call, ret, periods, store, selectedDates, markedDates, baseMarkedDates,
          firstPeriodDate, cycleDay, selectedDate, currentDate, inFlight, reloads,
          committed, scheduled, save, completedCycles, averageCycleLength,
          averagePeriodLength, cycleHistory, statsInFlight>>

(***************************************************************************)
(* The caller of the service: its array, the last call and what it gave    *)
(***************************************************************************)
NoCall == [op |-> "none"]

\* the first day of the calendar screen in the runs that only use the service
MountDay == <<2024, 3, 5>>

\* savePeriodDates is not running
Idle == [pc |-> "idle"]

\* CalendarScreen as its useState initial values leave it on the day today,
\* with first the commits given in first
ScreenState(today, first) ==
  /\ selectedDates = <<>>
  /\ markedDates = <<>>
  /\ baseMarkedDates = <<>>
  /\ firstPeriodDate = <<>>
  /\ cycleDay = <<>>
  /\ selectedDate = today
  /\ currentDate = today
  /\ inFlight = <<>>
  /\ reloads = 0
  /\ committed = [selectedDate |-> today, firstPeriodDate |-> <<>>]
  /\ scheduled = first
  /\ save = Idle

\* the screen at rest over an empty table
ScreenMounted(today) ==
  /\ store = <<>>
  /\ ScreenState(today, {})

\* Stats as its useState initial values leave it
StatsMounted ==
  /\ completedCycles = 0
  /\ averageCycleLength = 0
  /\ averagePeriodLength = 0
  /\ cycleHistory = <<>>
  /\ statsInFlight = <<>>

Init ==
  /\ dates \in InputLists
  /\ call = NoCall
  /\ ret = NoCall
  /\ periods = <<>>
  /\ ScreenMounted(MountDay)
  /\ StatsMounted

\* const cycleLength = PeriodPredictionService.getAverageCycleLength(dates)
CallGetAverageCycleLength ==
  /\ call' = [op |-> "getAverageCycleLength", dates |-> dates]
  /\ ret' = [op |-> "getAverageCycleLength", value |-> GetAverageCycleLength(dates)]
  /\ periods' = PeriodsOfAverage(dates)
  /\ dates' = ArrayAfterAverage(dates)
  /\ UNCHANGED <<screenVars, statsVars>>

Next == CallGetAverageCycleLength

Spec == Init /\ [][Next]_vars

(***************************************************************************)
(* The caller of the forecasts                                             *)
(***************************************************************************)
\* the largest cycle length passed to getOvulationDay and getFertilityWindow
MaxCycleArg == 35

\* the number of wall-clock readings after the first one
NumTodays == 17

\* period starts: before a year end, at a month end, before a leap day, and
\* in February of a common year
StartDates == { <<2023, 12, 20>>, <<2024, 1, 31>>, <<2024, 2, 1>>, <<2023, 2, 15>> }

CycleArgs == { <<>> } \cup { <<n>> : n \in 0..MaxCycleArg }

\* wall-clock readings 7 hours apart from 2024-02-28T00:00Z on
Todays == { ParseISO(<<2024, 2, 28>>) + 7 * k : k \in 0..NumTodays }

\* the positions in LoggedDays of the dates the forecast lists are built from
ForecastPick == <<1, 5, 10, 2>>

ForecastLists ==
  { [i \in 1..n |-> LoggedDays[ForecastPick[i]]] : n \in 0..Len(ForecastPick) }

InitForecast ==
  /\ dates \in ForecastLists
  /\ call = NoCall
  /\ ret = NoCall
  /\ periods = <<>>
  /\ ScreenMounted(MountDay)
  /\ StatsMounted

\* PeriodPredictionService.getPrediction(startDate, dates)
CallGetPrediction ==
  \E startDate \in StartDates, today \in Todays :
    /\ call' = [op |-> "getPrediction", startDate |-> startDate, allDates |-> dates,
                today |-> today]
    /\ ret' = [op |-> "getPrediction", value |-> GetPrediction(startDate, dates, today)]
    /\ periods' = PeriodsOfAverage(dates)
    /\ dates' = ArrayAfterAverage(dates)
    /\ UNCHANGED <<screenVars, statsVars>>

\* PeriodPredictionService.getOvulationDay(startDate, cycleLength)
CallGetOvulationDay ==
  \E startDate \in StartDates, cycleLength \in CycleArgs :
    /\ call' = [op |-> "getOvulationDay", startDate |-> startDate, cycleLength |-> cycleLength]
    /\ ret' = [op |-> "getOvulationDay", value |-> GetOvulationDay(startDate, cycleLength)]
    /\ UNCHANGED <<dates, periods>>
    /\ UNCHANGED <<screenVars, statsVars>>

\* PeriodPredictionService.getFertilityWindow(startDate, cycleLength)
CallGetFertilityWindow ==
  \E startDate \in StartDates, cycleLength \in CycleArgs :
    /\ call' = [op |-> "getFertilityWindow", startDate |-> startDate, cycleLength |-> cycleLength]
    /\ ret' = [op |-> "getFertilityWindow", value |-> GetFertilityWindow(startDate, cycleLength)]
    /\ UNCHANGED <<dates, periods>>
    /\ UNCHANGED <<screenVars, statsVars>>

NextForecast == CallGetPrediction

SpecForecast == InitForecast /\ [][NextForecast]_vars

\* the caller of the ovulation estimates holds no date list
InitFertility ==
  /\ dates = <<>>
  /\ call = NoCall
  /\ ret = NoCall
  /\ periods = <<>>
  /\ ScreenMounted(MountDay)
  /\ StatsMounted

NextFertility == CallGetOvulationDay \/ CallGetFertilityWindow

SpecFertility == InitFertility /\ [][NextFertility]_vars

(***************************************************************************)
(* The caller of the cycle day and of the classifications                  *)
(***************************************************************************)
\* the number of reference days after the first one
NumRefDays == 75

\* the largest cycle day passed to getCyclePhase and getPregnancyChance
MaxCycleDay == 40

\* a string with month 13
NotADate == <<2024, 13, 1>>

\* a string whose day February does not have: new Date reads it as 2024-03-01
RolledDate == <<2024, 2, 30>>

\* period starts, a string that rolls over and a string that is not a date
CycleStarts == { <<2023, 12, 25>>, <<2024, 1, 1>>, <<2024, 2, 20>>, RolledDate, NotADate }

\* the reference days 2023-12-20 .. 2023-12-20 + NumRefDays
RefDates ==
  { LET n == MakeDay(2023, 12, 20) + k
    IN  <<YearOfDay(n), MonthOfDay(n), DateOfDay(n)>> : k \in 0..NumRefDays }

CurrentArgs == { <<>> } \cup { <<d>> : d \in RefDates \cup { NotADate } }

DayArgs == (0 - 3)..MaxCycleDay

\* the clock readings of a call: new Date() is evaluated only when
\* currentDate is omitted
ClockReadings(current) == IF current = <<>> THEN Todays ELSE { ParseISO(MountDay) }

InitCycle ==
  /\ dates = <<>>
  /\ call = NoCall
  /\ ret = NoCall
  /\ periods = <<>>
  /\ ScreenMounted(MountDay)
  /\ StatsMounted

\* PeriodPredictionService.getCurrentCycleDay(startDate, currentDate)
CallGetCurrentCycleDay ==
  \E startDate \in CycleStarts, current \in CurrentArgs :
   \E now \in ClockReadings(current) :
    /\ call' = [op |-> "getCurrentCycleDay", startDate |-> startDate,
                currentDate |-> current,
                now |-> IF current = <<>> THEN <<now>> ELSE <<>>]
    /\ ret' = [op |-> "getCurrentCycleDay",
               value |-> GetCurrentCycleDay(startDate, current, now)]
    /\ UNCHANGED <<dates, periods>>
    /\ UNCHANGED <<screenVars, statsVars>>

\* PeriodPredictionService.getCyclePhase(cycleDay)
CallGetCyclePhase ==
  \E day \in DayArgs :
    /\ call' = [op |-> "getCyclePhase", cycleDay |-> day]
    /\ ret' = [op |-> "getCyclePhase", value |-> GetCyclePhase(day)]
    /\ UNCHANGED <<dates, periods>>
    /\ UNCHANGED <<screenVars, statsVars>>

\* PeriodPredictionService.getPregnancyChance(cycleDay)
CallGetPregnancyChance ==
  \E day \in DayArgs :
    /\ call' = [op |-> "getPregnancyChance", cycleDay |-> day]
    /\ ret' = [op |-> "getPregnancyChance", value |-> GetPregnancyChance(day)]
    /\ UNCHANGED <<dates, periods>>
    /\ UNCHANGED <<screenVars, statsVars>>

\* PeriodPredictionService.getCycleInfo(startDate, currentDate, cycleLength)
CallGetCycleInfo ==
  \E startDate \in CycleStarts, current \in CurrentArgs, cycleLength \in { <<>>, <<21>> } :
   \E now \in ClockReadings(current) :
    /\ call' = [op |-> "getCycleInfo", startDate |-> startDate,
                currentDate |-> current, cycleLength |-> cycleLength,
                now |-> IF current = <<>> THEN <<now>> ELSE <<>>]
    /\ ret' = [op |-> "getCycleInfo",
               value |-> GetCycleInfo(startDate, current, cycleLength, now)]
    /\ UNCHANGED <<dates, periods>>
    /\ UNCHANGED <<screenVars, statsVars>>

NextCycle ==
  \/ CallGetCurrentCycleDay
  \/ CallGetCyclePhase
  \/ CallGetPregnancyChance
  \/ CallGetCycleInfo

SpecCycle == InitCycle /\ [][NextCycle]_vars

(***************************************************************************)
(* CalendarScreen: loadData and generateMarkedDates                        *)
(***************************************************************************)
\* the marking loadData gives a logged day
PeriodMark ==
  [selected |-> TRUE, backgroundColor |-> "#FF597B", borderRadius |-> 16,
   borderWidth |-> "", borderStyle |-> "", borderColor |-> "", textColor |-> "#FFFFFF"]

\* the marking generateMarkedDates gives a predicted day
PredictionMark ==
  [selected |-> FALSE, backgroundColor |-> "transparent", borderRadius |-> 16,
   borderWidth |-> "1.5", borderStyle |-> "dashed", borderColor |-> "#FF597B",
   textColor |-> "#FF597B"]

\* a key without a marking: every property undefined
NoMark ==
  [selected |-> FALSE, backgroundColor |-> "", borderRadius |-> 0,
   borderWidth |-> "", borderStyle |-> "", borderColor |-> "", textColor |-> ""]

\* obj[key] = value
Put(obj, key, value) ==
  [k \in (DOMAIN obj) \cup {key} |-> IF k = key THEN value ELSE obj[k]]

\* the row dates in the order of their first occurrence: Object.keys of the
\* object the reduce in loadData builds
RECURSIVE KeysOf(_, _)
KeysOf(rows, seen) ==
  IF rows = <<>> THEN <<>>
  ELSE IF Head(rows) \in seen THEN KeysOf(Tail(rows), seen)
  ELSE <<Head(rows)>> \o KeysOf(Tail(rows), seen \cup {Head(rows)})

\* formatDateString(date): the "YYYY-MM-DD" string of the local day
FormatDateString(t) ==
  LET day == FloorDiv(t, HoursPerDay)
  IN  <<YearOfDay(day), MonthOfDay(day), DateOfDay(day)>>

\* new Date(year, month, day + cycleLength * (i + 1), 12, 0, 0), month 0-based
NextPeriodDate(startDate, cycleLength, i) ==
  LET year  == startDate[1]
      month == startDate[2] - 1
      day   == startDate[3]
  IN  MakeDay(year, month + 1, day + cycleLength * (i + 1)) * HoursPerDay + 12

\* the loops with every predicted day marked, logged or not
RECURSIVE PredictionLoopOverwriting(_, _, _, _, _)
PredictionLoopOverwriting(allMarkedDates, startDate, cycleLength, i, j) ==
  IF i >= 3 THEN allMarkedDates
  ELSE IF j >= 5
       THEN PredictionLoopOverwriting(allMarkedDates, startDate, cycleLength, i + 1, 0)
  ELSE
    LET nextPeriodDate     == NextPeriodDate(startDate, cycleLength, i)
        predictedDay       == SetDate(nextPeriodDate, GetDate(nextPeriodDate) + j)
        predictedDayString == FormatDateString(predictedDay)
    IN  PredictionLoopOverwriting(Put(allMarkedDates, predictedDayString, PredictionMark),
                                  startDate, cycleLength, i, j + 1)

\* the loops over i = 0..2 and j = 0..4 that mark the predicted days
RECURSIVE PredictionLoop(_, _, _, _, _)
PredictionLoop(allMarkedDates, startDate, cycleLength, i, j) ==
  IF i >= 3 THEN allMarkedDates
  ELSE IF j >= 5 THEN PredictionLoop(allMarkedDates, startDate, cycleLength, i + 1, 0)
  ELSE
    LET nextPeriodDate     == NextPeriodDate(startDate, cycleLength, i)
        predictedDay       == SetDate(nextPeriodDate, GetDate(nextPeriodDate) + j)
        predictedDayString == FormatDateString(predictedDay)
        unmarked           == \/ predictedDayString \notin DOMAIN allMarkedDates
                              \/ ~allMarkedDates[predictedDayString].selected
    IN  PredictionLoop(IF unmarked
                       THEN Put(allMarkedDates, predictedDayString, PredictionMark)
                       ELSE allMarkedDates,
                       startDate, cycleLength, i, j + 1)

\* today gets a border on a logged day and a gray background otherwise
MarkToday(allMarkedDates, today) ==
  IF today \in DOMAIN allMarkedDates /\ allMarkedDates[today].selected
  THEN Put(allMarkedDates, today,
           [allMarkedDates[today] EXCEPT !.borderWidth = "2", !.borderColor = "black",
                                         !.textColor = "#FFFFFF"])
  ELSE LET old == IF today \in DOMAIN allMarkedDates THEN allMarkedDates[today] ELSE NoMark
       IN  Put(allMarkedDates, today,
               [old EXCEPT !.backgroundColor =
                             IF old.backgroundColor = "" THEN "#E6E6E6"
                             ELSE old.backgroundColor,
                           !.borderRadius = 16])

\* the object generateMarkedDates(periodDates, startDate) passes to
\* setBaseMarkedDates; keys is Object.keys(periodDates)
GenerateMarkedDates(periodDates, keys, startDate, today) ==
  LET cycleLength == GetAverageCycleLength(keys)
  IN  MarkToday(PredictionLoop(periodDates, startDate, cycleLength, 0, 0), today)

\* the number of logged days the stored tables are drawn from
NumStored == 8

\* the days on which the screen is mounted
MountDays == { <<2024, 3, 5>>, <<2024, 3, 10>>, <<2024, 4, 2>> }

\* a table whose most recent period is longer than the cycle: the period
\* starts on 2024-01-28, the cycle length is 8, and 2024-02-05 is logged
LongPeriodTable ==
  << <<2024, 1, 20>>, <<2024, 1, 28>>, <<2024, 2, 4>>, <<2024, 2, 5>>, <<2024, 2, 12>> >>

StoredLists ==
  UNION { Orderings(I) : I \in SUBSET (1..Min(NumStored, Len(LoggedDays))) }
    \cup { LongPeriodTable, Reverse(LongPeriodTable) }

\* the object the reduce of loadData builds from the rows saved
ReduceDates(saved) == [d \in { saved[k] : k \in DOMAIN saved } |-> PeriodMark]

\* the periods loadData groups the rows saved into
LoadedPeriods(saved) == GroupPeriods(SortDescending(saved))

\* mostRecentStart: the earliest date of the first period
LoadedStart(saved) ==
  LET mostRecentPeriod == LoadedPeriods(saved)[1]
  IN  mostRecentPeriod[Len(mostRecentPeriod)]

\* loadData() from the answer of the select on: the state it sets from the
\* rows saved
LoadDataSets(saved) ==
  LET marked == ReduceDates(saved)
  IN  /\ selectedDates' = marked
      /\ IF Len(saved) > 0
         THEN /\ periods' = LoadedPeriods(saved)
              /\ firstPeriodDate' = <<LoadedStart(saved)>>
              /\ baseMarkedDates' =
                   GenerateMarkedDates(marked, KeysOf(saved, {}), LoadedStart(saved),
                                       currentDate)
              /\ UNCHANGED <<cycleDay, markedDates>>
         ELSE /\ periods' = <<>>
              /\ firstPeriodDate' = <<>>
              /\ cycleDay' = <<>>
              /\ markedDates' = <<>>
              /\ UNCHANGED baseMarkedDates

(***************************************************************************)
(* CalendarScreen: effects, day presses, focus and savePeriodDates         *)
(*                                                                         *)
(* The table carries out a statement when it is issued and answers it      *)
(* later: a select holds the rows of the moment loadData was called, and   *)
(* the selects are answered in the order they were issued.  The code after *)
(* an await runs as a step of its own.  State updates made by such steps   *)
(* are batched: the commit, and with it the effects whose dependencies     *)
(* differ from those of the commit before, comes when no resumed           *)
(* reloadData is left, and the continuations of selects answered in one    *)
(* turn share one commit.  A select is issued, and an event handler runs,  *)
(* when the updates made before are committed.  The effects of the first   *)
(* commit and of a commit made inside an event handler run before any      *)
(* other step.                                                             *)
(***************************************************************************)
\* updateSelectedDateHighlight() over the marks base with the day selected
\* framed
Highlight(base, selected) ==
  LET old == IF selected \in DOMAIN base THEN base[selected] ELSE NoMark
      isPeriodDate == old.backgroundColor = "#FF597B"
  IN  Put(base, selected,
          [old EXCEPT !.borderWidth = "2", !.borderColor = "black", !.borderRadius = 16,
                      !.textColor = IF isPeriodDate THEN "#FFFFFF" ELSE old.textColor])

\* updateSelectedDateHighlight() in the current state
UpdateSelectedDateHighlight == Highlight(baseMarkedDates, selectedDate)

\* the comparison of the selected date with firstPeriodDate left out
SelectedDateInfoUnguarded(first, date, old) ==
  IF first = <<>> THEN old
  ELSE <<GetCycleInfo(first[1], <<date>>, <<>>, ParseISO(date)).cycleDay>>

\* updateSelectedDateInfo(date) with firstPeriodDate first: the cycleDay
\* state it leaves where it was old
SelectedDateInfo(first, date, old) ==
  IF first = <<>> THEN old
  ELSE IF ParseISO(date) >= ParseISO(first[1])
       THEN <<GetCycleInfo(first[1], <<date>>, <<>>, ParseISO(date)).cycleDay>>
       ELSE <<>>

\* updateSelectedDateInfo(date) in the current state
UpdateSelectedDateInfo(date) == SelectedDateInfo(firstPeriodDate, date, cycleDay)

\* the screen mounted on the day today over the rows saved, every select
\* answered and every effect run
ScreenAtRest(saved, today) ==
  LET first == IF Len(saved) > 0 THEN <<LoadedStart(saved)>> ELSE <<>>
      base  == IF Len(saved) > 0
               THEN GenerateMarkedDates(ReduceDates(saved), KeysOf(saved, {}),
                                        LoadedStart(saved), today)
               ELSE <<>>
  IN  /\ selectedDates = ReduceDates(saved)
      /\ baseMarkedDates = base
      /\ firstPeriodDate = first
      /\ cycleDay = SelectedDateInfo(first, today, <<>>)
      /\ markedDates = IF Len(saved) > 0 THEN Highlight(base, today) ELSE <<>>
      /\ selectedDate = today
      /\ currentDate = today
      /\ inFlight = <<>>
      /\ reloads = 0
      /\ committed = [selectedDate |-> today, firstPeriodDate |-> first]
      /\ scheduled = {}
      /\ save = Idle

\* the effects the next commit runs: the one on [selectedDate,
\* firstPeriodDate] and the one on [selectedDate, baseMarkedDates,
\* updateSelectedDateHighlight], by comparison with the commit before
EffectsDue ==
  IF "mount" \in scheduled THEN { "mount" }
  ELSE (IF \/ selectedDate # committed.selectedDate
           \/ firstPeriodDate # committed.firstPeriodDate
        THEN { "info" } ELSE {})
       \cup (IF selectedDate # committed.selectedDate \/ "base" \in scheduled
             THEN { "highlight" } ELSE {})

\* the first commit or the commit of an event handler has effects to run
InHandler == scheduled \cap { "mount", "event" } # {}

\* every update made so far is committed and its effects have run
Settled == EffectsDue = {} /\ reloads = 0

\* the largest number of loadData calls, and of loadStatistics calls, waiting
\* for their continuation
MaxInFlight == 2

\* the table savePeriodDates rewrites: one period of three days
SaveTables == { << LoggedDays[6], LoggedDays[7], LoggedDays[8] >> }

\* the tables the screen is mounted over: none stored, one period, two
\* periods stored out of order, and a period that starts after the mount
CalendarTables ==
  { <<>> } \cup SaveTables
    \cup { << LoggedDays[7], LoggedDays[2], LoggedDays[6] >>, << LoggedDays[8], LoggedDays[1] >> }

\* the date sets passed to savePeriodDates, as Object.keys(dates): none, and
\* the period of the table less its last day
SaveArgs == { <<>>, << LoggedDays[6], LoggedDays[7] >> }

\* the days on which the tab is focused: the day of the mount and a later one
FocusDays == { MountDay, <<2024, 3, 10>> }

\* the days new Date() can give once the screen is mounted
ClockDays == { d \in FocusDays \cup { currentDate } : ParseISO(d) >= ParseISO(currentDate) }

\* the days the user presses
PressDays == { <<2024, 2, 20>>, <<2024, 3, 6>>, <<2024, 3, 26>> }

\* the effects of the first commit, in the order they are declared: the
\* focus effect and the initial load call loadData(), updateSelectedDateInfo
\* runs twice, and the highlight effect sets markedDates
Mount ==
  /\ "mount" \in scheduled
  /\ call' = [op |-> "mount"]
  /\ inFlight' = << [saved |-> store, focus |-> TRUE], [saved |-> store, focus |-> FALSE] >>
  /\ cycleDay' = UpdateSelectedDateInfo(selectedDate)
  /\ markedDates' = UpdateSelectedDateHighlight
  /\ scheduled' = {}
  /\ UNCHANGED <<dates, ret, periods, store, selectedDates, baseMarkedDates, firstPeriodDate,
                  selectedDate, currentDate, reloads, committed, save, statsVars>>

\* the tab is focused again: reloadData() calls loadData(), whose select
\* reads the table
Focus ==
  /\ Settled
  /\ Len(inFlight) < MaxInFlight
  /\ call' = [op |-> "focus", saved |-> store]
  /\ inFlight' = Append(inFlight, [saved |-> store, focus |-> TRUE])
  /\ UNCHANGED <<dates, ret, periods, store, selectedDates, markedDates, baseMarkedDates,
                  firstPeriodDate, cycleDay, selectedDate, currentDate, reloads, committed,
                  scheduled, save, statsVars>>

\* the oldest select is answered and loadData runs on from line 42; a
\* reloadData that awaits it is resumed.  setBaseMarkedDates is given a new
\* object.
LoadDataContinue ==
  /\ ~InHandler
  /\ inFlight # <<>>
  /\ call' = [op |-> "loadData", saved |-> Head(inFlight).saved]
  /\ LoadDataSets(Head(inFlight).saved)
  /\ inFlight' = Tail(inFlight)
  /\ reloads' = IF Head(inFlight).focus THEN reloads + 1 ELSE reloads
  /\ scheduled' = IF Len(Head(inFlight).saved) > 0 THEN scheduled \cup { "base" }
                  ELSE scheduled
  /\ UNCHANGED <<dates, ret, store, selectedDate, currentDate, committed, save, statsVars>>

\* the oldest select rejects: loadData throws at line 40 and sets nothing,
\* and a reloadData that awaits it is abandoned
LoadDataRejects ==
  /\ ~InHandler
  /\ inFlight # <<>>
  /\ call' = [op |-> "loadDataFailed", saved |-> Head(inFlight).saved]
  /\ inFlight' = Tail(inFlight)
  /\ UNCHANGED <<dates, ret, periods, store, selectedDates, markedDates, baseMarkedDates,
                  firstPeriodDate, cycleDay, selectedDate, currentDate, reloads, committed,
                  scheduled, save, statsVars>>

\* reloadData after await loadData(): setSelectedDate(formatDateString(new Date()));
\* the calendarKey it also sets only remounts the calendar component
ReloadDataContinue ==
  /\ reloads > 0
  /\ \E today \in ClockDays :
       /\ call' = [op |-> "reloadData", today |-> today]
       /\ selectedDate' = today
  /\ reloads' = reloads - 1
  /\ UNCHANGED <<dates, ret, periods, store, selectedDates, markedDates, baseMarkedDates,
                  firstPeriodDate, cycleDay, currentDate, inFlight, committed, scheduled,
                  save, statsVars>>

\* onDayPress(day): setSelectedDate(day.dateString)
OnDayPress ==
  /\ Settled
  /\ \E day \in PressDays :
       /\ call' = [op |-> "onDayPress", dateString |-> day]
       /\ selectedDate' = day
       /\ scheduled' = IF day # selectedDate THEN { "event" } ELSE {}
  /\ UNCHANGED <<dates, ret, periods, store, selectedDates, markedDates, baseMarkedDates,
                  firstPeriodDate, cycleDay, currentDate, inFlight, reloads, committed,
                  save, statsVars>>

\* the commit: the effects that are due run on the state the batch left
RunEffects ==
  /\ "mount" \notin scheduled
  /\ EffectsDue # {}
  /\ reloads = 0
  /\ call' = [op |-> "effects", ran |-> EffectsDue]
  /\ cycleDay' = IF "info" \in EffectsDue THEN UpdateSelectedDateInfo(selectedDate)
                 ELSE cycleDay
  /\ markedDates' = IF "highlight" \in EffectsDue THEN UpdateSelectedDateHighlight
                    ELSE markedDates
  /\ committed' = [selectedDate |-> selectedDate, firstPeriodDate |-> firstPeriodDate]
  /\ scheduled' = {}
  /\ UNCHANGED <<dates, ret, periods, store, selectedDates, baseMarkedDates, firstPeriodDate,
                  selectedDate, currentDate, inFlight, reloads, save, statsVars>>

\* the date store, a collaborator outside the sources: db.delete(periodDates)
\* removes every row of the table
DbDelete(table) == <<>>

\* the date store: db.insert(periodDates).values(rows) adds the rows to the
\* table; a statement that rejects leaves the table as it was
DbInsert(table, rows) == table \o rows

\* savePeriodDates(dates) up to its first await: db.delete(periodDates) is
\* issued and empties the table
SavePeriodDatesDelete ==
  /\ Settled
  /\ save = Idle
  /\ \E keys \in SaveArgs :
       /\ call' = [op |-> "savePeriodDates", dates |-> keys, stored |-> store,
                   failed |-> FALSE]
       /\ save' = [pc |-> "delete", dates |-> keys, stored |-> store, ok |-> TRUE]
  /\ store' = DbDelete(store)
  /\ UNCHANGED <<dates, ret, periods, selectedDates, markedDates, baseMarkedDates,
                  firstPeriodDate, cycleDay, selectedDate, currentDate, inFlight, reloads,
                  committed, scheduled, statsVars>>

\* savePeriodDates(dates) with a db.delete that is going to reject: the
\* table is as it was
SavePeriodDatesDeleteFails ==
  /\ Settled
  /\ save = Idle
  /\ \E keys \in SaveArgs :
       /\ call' = [op |-> "savePeriodDates", dates |-> keys, stored |-> store,
                   failed |-> FALSE]
       /\ save' = [pc |-> "delete", dates |-> keys, stored |-> store, ok |-> FALSE]
  /\ UNCHANGED <<dates, ret, periods, store, selectedDates, markedDates, baseMarkedDates,
                  firstPeriodDate, cycleDay, selectedDate, currentDate, inFlight, reloads,
                  committed, scheduled, statsVars>>

\* the delete is answered and there are rows to insert: db.insert is issued
\* and writes them
SavePeriodDatesInsert ==
  /\ ~InHandler
  /\ save.pc = "delete"
  /\ save.ok
  /\ Len(save.dates) > 0
  /\ call' = [op |-> "savePeriodDates", dates |-> save.dates, stored |-> save.stored,
              failed |-> FALSE]
  /\ store' = DbInsert(store, save.dates)
  /\ save' = [save EXCEPT !.pc = "insert"]
  /\ UNCHANGED <<dates, ret, periods, selectedDates, markedDates, baseMarkedDates,
                  firstPeriodDate, cycleDay, selectedDate, currentDate, inFlight, reloads,
                  committed, scheduled, statsVars>>

\* the delete is answered and the db.insert issued is going to reject: the
\* table stays as the delete left it
SavePeriodDatesInsertFails ==
  /\ ~InHandler
  /\ save.pc = "delete"
  /\ save.ok
  /\ Len(save.dates) > 0
  /\ call' = [op |-> "savePeriodDates", dates |-> save.dates, stored |-> save.stored,
              failed |-> FALSE]
  /\ save' = [save EXCEPT !.pc = "insert", !.ok = FALSE]
  /\ UNCHANGED <<dates, ret, periods, store, selectedDates, markedDates, baseMarkedDates,
                  firstPeriodDate, cycleDay, selectedDate, currentDate, inFlight, reloads,
                  committed, scheduled, statsVars>>

\* the last statement of savePeriodDates is answered: loadData() is called
\* in the same continuation and its select reads the table
SavePeriodDatesLoad ==
  /\ ~InHandler
  /\ save.pc \in { "delete", "insert" }
  /\ save.ok
  /\ save.pc = "delete" => Len(save.dates) = 0
  /\ Len(inFlight) < MaxInFlight
  /\ call' = [op |-> "savePeriodDates", dates |-> save.dates, stored |-> save.stored,
              failed |-> FALSE]
  /\ inFlight' = Append(inFlight, [saved |-> store, focus |-> FALSE])
  /\ save' = Idle
  /\ UNCHANGED <<dates, ret, periods, store, selectedDates, markedDates, baseMarkedDates,
                  firstPeriodDate, cycleDay, selectedDate, currentDate, reloads, committed,
                  scheduled, statsVars>>

\* the statement awaited rejects: the catch logs the error and loadData()
\* is not called
SavePeriodDatesCatch ==
  /\ ~InHandler
  /\ save.pc \in { "delete", "insert" }
  /\ ~save.ok
  /\ call' = [op |-> "savePeriodDates", dates |-> save.dates, stored |-> save.stored,
              failed |-> TRUE]
  /\ save' = Idle
  /\ UNCHANGED <<dates, ret, periods, store, selectedDates, markedDates, baseMarkedDates,
                  firstPeriodDate, cycleDay, selectedDate, currentDate, inFlight, reloads,
                  committed, scheduled, statsVars>>

\* the screen mounted over a stored table, left alone until it is at rest
InitScreen ==
  /\ dates = <<>>
  /\ call = NoCall
  /\ ret = NoCall
  /\ periods = <<>>
  /\ store \in StoredLists
  /\ \E today \in MountDays : ScreenState(today, { "mount" })
  /\ StatsMounted

NextScreen ==
  \/ Mount
  \/ LoadDataContinue
  \/ LoadDataRejects
  \/ ReloadDataContinue
  \/ RunEffects

SpecScreen == InitScreen /\ [][NextScreen]_vars

InitCalendar ==
  /\ dates = <<>>
  /\ call = NoCall
  /\ ret = NoCall
  /\ periods = <<>>
  /\ store \in CalendarTables
  /\ ScreenState(MountDay, { "mount" })
  /\ StatsMounted

\* the screen in use: focus and day presses; nothing in the sources calls
\* savePeriodDates, so the table stays
NextCalendar ==
  \/ Mount
  \/ Focus
  \/ LoadDataContinue
  \/ LoadDataRejects
  \/ ReloadDataContinue
  \/ OnDayPress
  \/ RunEffects

SpecCalendar == InitCalendar /\ [][NextCalendar]_vars

\* the screen mounted over a table with rows to lose
InitSave ==
  /\ InitCalendar
  /\ store \in SaveTables

\* a caller of savePeriodDates: saves that succeed or fail while the tab is
\* focused, no day pressed
NextSave ==
  \/ Mount
  \/ Focus
  \/ LoadDataContinue
  \/ LoadDataRejects
  \/ ReloadDataContinue
  \/ RunEffects
  \/ SavePeriodDatesDelete
  \/ SavePeriodDatesDeleteFails
  \/ SavePeriodDatesInsert
  \/ SavePeriodDatesInsertFails
  \/ SavePeriodDatesLoad
  \/ SavePeriodDatesCatch

SpecSave == InitSave /\ [][NextSave]_vars

(***************************************************************************)
(* Stats: loadStatistics                                                   *)
(*                                                                         *)
(* A value of type string | number is the record [typeof, value].          *)
(***************************************************************************)
MonthNames ==
  << "Jan", "Feb", "Mar", "Apr", "May", "Jun", "Jul", "Aug", "Sep", "Oct", "Nov", "Dec" >>

\* formatDate(dateString): toLocaleDateString('en-US', {month: 'short',
\* day: 'numeric'}), "MMM D"
FormatDate(dateString) ==
  LET day == FloorDiv(ParseISO(dateString), HoursPerDay)
  IN  [month |-> MonthNames[MonthOfDay(day)], day |-> DateOfDay(day)]

\* the comparator (a, b) => new Date(a).getTime() - new Date(b).getTime()
CompareAscending(a, b) == ParseISO(a) - ParseISO(b)

RECURSIVE InsertSortedAscending(_, _)
InsertSortedAscending(x, s) ==
  IF s = <<>> THEN <<x>>
  ELSE IF CompareAscending(Head(s), x) > 0 THEN <<x>> \o s
  ELSE <<Head(s)>> \o InsertSortedAscending(x, Tail(s))

RECURSIVE SortAscendingInto(_, _)
SortAscendingInto(s, acc) ==
  IF s = <<>> THEN acc ELSE SortAscendingInto(Tail(s), InsertSortedAscending(Head(s), acc))

\* [...s].sort((a, b) => new Date(a).getTime() - new Date(b).getTime())
SortAscending(s) == SortAscendingInto(s, <<>>)

RECURSIVE InsertHistory(_, _)
InsertHistory(x, s) ==
  IF s = <<>> THEN <<x>>
  ELSE IF CompareDescending(Head(s).originalDate, x.originalDate) > 0 THEN <<x>> \o s
  ELSE <<Head(s)>> \o InsertHistory(x, Tail(s))

RECURSIVE SortHistoryInto(_, _)
SortHistoryInto(s, acc) ==
  IF s = <<>> THEN acc ELSE SortHistoryInto(Tail(s), InsertHistory(Head(s), acc))

\* the history left in the order the loop pushed it, oldest first
SortHistoryOmitted(history) == history

\* history.sort((a, b) => dateB.getTime() - dateA.getTime())
SortHistory(history) == SortHistoryInto(history, <<>>)

\* Math.round(Math.abs(... / (1000 * 60 * 60 * 24))) of two time values
DaysBetween(a, b) == (2 * Abs(a - b) + HoursPerDay) \div (2 * HoursPerDay)

RECURSIVE SumLengths(_)
SumLengths(ps) == IF ps = <<>> THEN 0 ELSE Len(Head(ps)) + SumLengths(Tail(ps))

InProgress == [typeof |-> "string", value |-> "In progress"]

\* the entry the loop pushes for chronologicalPeriods[i] (i 1-based here)
HistoryEntry(chronologicalPeriods, periodStartDates, i) ==
  LET period       == chronologicalPeriods[i]
      sortedPeriod == SortAscending(period)
      startDate    == sortedPeriod[1]
      cycleLengthValue ==
        IF i = Len(chronologicalPeriods) THEN InProgress
        ELSE [typeof |-> "number",
              value |-> DaysBetween(ParseISO(periodStartDates[i + 1]),
                                    ParseISO(periodStartDates[i]))]
  IN  [startDate |-> FormatDate(startDate),
       originalDate |-> startDate,
       cycleLength |-> cycleLengthValue,
       periodLength |-> Len(period)]

\* cleanHistory for the periods grouped newest first
CleanHistory(grouped) ==
  LET chronologicalPeriods == Reverse(grouped)
      periodStartDates ==
        SortAscending([i \in 1..Len(chronologicalPeriods) |->
                         SortAscending(chronologicalPeriods[i])[1]])
      history == [i \in 1..Len(chronologicalPeriods) |->
                    HistoryEntry(chronologicalPeriods, periodStartDates, i)]
      sorted  == SortHistory(history)
  IN  [i \in 1..Len(sorted) |->
         [startDate |-> sorted[i].startDate,
          cycleLength |-> sorted[i].cycleLength,
          periodLength |-> sorted[i].periodLength]]

\* the Stats tab over a stored table, the calendar screen at rest
InitStats ==
  /\ dates = <<>>
  /\ call = NoCall
  /\ ret = NoCall
  /\ periods = <<>>
  /\ store \in StoredLists
  /\ ScreenAtRest(store, MountDay)
  /\ StatsMounted

\* the tab is focused: loadStatistics() is called and its select reads the
\* table
LoadStatisticsCall ==
  /\ Len(statsInFlight) < MaxInFlight
  /\ call' = [op |-> "focusStats", saved |-> store]
  /\ statsInFlight' = Append(statsInFlight, [saved |-> store])
  /\ UNCHANGED <<dates, ret, periods, screenVars, completedCycles, averageCycleLength,
                  averagePeriodLength, cycleHistory>>

\* loadStatistics() from the answer of the select on: the Stats state it
\* sets from the rows saved
LoadStatisticsSets(saved) ==
  LET sortedDates == SortDescending(saved)
      grouped     == GroupPeriods(sortedDates)
      cycles      == IF Len(grouped) - 1 < 0 THEN 0 ELSE Len(grouped) - 1
      cycleLength == GetAverageCycleLength(sortedDates)
      totalPeriodLength == SumLengths(grouped)
      avgPeriodLength   == MathRoundQuotient(FInt(totalPeriodLength), FInt(Len(grouped)))
  IN  IF Len(saved) = 0
      THEN /\ completedCycles' = 0
           /\ averageCycleLength' = 0
           /\ averagePeriodLength' = 0
           /\ cycleHistory' = <<>>
           /\ periods' = <<>>
      ELSE /\ completedCycles' = cycles
           /\ averageCycleLength' = cycleLength
           /\ averagePeriodLength' = avgPeriodLength
           /\ cycleHistory' = CleanHistory(grouped)
           /\ periods' = grouped

\* the oldest select is answered and loadStatistics runs on from line 45
LoadStatisticsContinue ==
  /\ statsInFlight # <<>>
  /\ call' = [op |-> "loadStatistics", saved |-> Head(statsInFlight).saved]
  /\ LoadStatisticsSets(Head(statsInFlight).saved)
  /\ statsInFlight' = Tail(statsInFlight)
  /\ UNCHANGED <<dates, ret, screenVars>>

\* the oldest select rejects: the catch logs the error and the state stays
LoadStatisticsCatch ==
  /\ statsInFlight # <<>>
  /\ call' = [op |-> "loadStatisticsFailed", saved |-> Head(statsInFlight).saved]
  /\ statsInFlight' = Tail(statsInFlight)
  /\ UNCHANGED <<dates, ret, periods, screenVars, completedCycles, averageCycleLength,
                  averagePeriodLength, cycleHistory>>

\* the Stats tab is focused and loads while the calendar screen is at rest;
\* nothing in the sources calls savePeriodDates, so the table stays
NextStats ==
  \/ LoadStatisticsCall
  \/ LoadStatisticsContinue
  \/ LoadStatisticsCatch

SpecStats == InitStats /\ [][NextStats]_vars

(***************************************************************************)
(* Episodes, stated on sets of day numbers                                 *)
(***************************************************************************)
DayNumber(d) == ParseISO(d) \div HoursPerDay

Range(s) == { s[i] : i \in DOMAIN s }

DaySet(ds) == { DayNumber(ds[i]) : i \in DOMAIN ds }

\* a logged day opens an episode when no logged day lies 1..7 days before it
EpisodeStarts(D) == { d \in D : \A e \in D : e < d => d - e > 7 }

RECURSIVE DescendingSeq(_)
DescendingSeq(S) ==
  IF S = {} THEN <<>>
  ELSE LET m == CHOOSE x \in S : \A y \in S : y <= x
       IN  <<m>> \o DescendingSeq(S \ {m})

\* the dates of a set, oldest first
RECURSIVE AscendingDates(_)
AscendingDates(S) ==
  IF S = {} THEN <<>>
  ELSE LET m == CHOOSE x \in S : \A y \in S : DayNumber(x) <= DayNumber(y)
       IN  <<m>> \o AscendingDates(S \ {m})

\* gap k (1 = most recent) between episode starts, for the 5 most recent gaps
GapsConsidered(D) ==
  LET st == DescendingSeq(EpisodeStarts(D))
  IN  [k \in 1..Min(Len(st) - 1, 5) |-> st[k] - st[k + 1]]

\* the weights 1.0, 0.8, 0.6, 0.4, 0.2 in tenths, for k = 0..4
ExactWeightTenths(k) == IF 10 - 2 * k < 2 THEN 2 ELSE 10 - 2 * k

RECURSIVE WeightedGapTenths(_, _)
WeightedGapTenths(g, k) ==
  IF k > Len(g) THEN 0 ELSE g[k] * ExactWeightTenths(k - 1) + WeightedGapTenths(g, k + 1)

RECURSIVE WeightTenths(_, _)
WeightTenths(g, k) ==
  IF k > Len(g) THEN 0 ELSE ExactWeightTenths(k - 1) + WeightTenths(g, k + 1)

\* the entries of ds that belong to the 6 most recent episodes
RecentSixEpisodes(ds) ==
  LET st == DescendingSeq(EpisodeStarts(DaySet(ds)))
      Keep(d) == DayNumber(d) >= st[6]
  IN  SelectSeq(ds, Keep)

Averaged == call.op = "getAverageCycleLength"

(***************************************************************************)
(* Claims                                                                  *)
(***************************************************************************)
\* C1: getAverageCycleLength returns 28 for every list that yields no gap:
\* fewer than 2 entries, one date repeated, or dates that form one episode.
C1_DefaultWithoutGap ==
  (Averaged /\ (Len(call.dates) < 2 \/ Cardinality(EpisodeStarts(DaySet(call.dates))) <= 1))
    => ret.value = 28

\* a list of several distinct days, two of them exactly 7 days apart, in one episode
C1_Witness ==
  /\ Averaged
  /\ Cardinality(DaySet(call.dates)) >= 3
  /\ Cardinality(EpisodeStarts(DaySet(call.dates))) = 1
  /\ \E a, b \in DaySet(call.dates) : b - a = 7 /\ \A c \in DaySet(call.dates) : ~(a < c /\ c < b)
  /\ ret.value = 28

\* C2: with at least 2 episodes the result is an integer nearest to
\* (sum of gap_k * w_k) / (sum of w_k) over the 5 most recent gaps between
\* episode starts, with weights 1.0, 0.8, 0.6, 0.4, 0.2.
C2_WeightedAverage ==
  (Averaged /\ Cardinality(EpisodeStarts(DaySet(call.dates))) >= 2) =>
    LET g == GapsConsidered(DaySet(call.dates))
    IN  2 * Abs(ret.value * WeightTenths(g, 1) - WeightedGapTenths(g, 1)) <= WeightTenths(g, 1)

\* five gaps that are not all equal
C2_Witness ==
  /\ Averaged
  /\ Cardinality(EpisodeStarts(DaySet(call.dates))) >= 6
  /\ LET g == GapsConsidered(DaySet(call.dates))
     IN  Len(g) = 5 /\ \E j, k \in 1..5 : g[j] # g[k]
  /\ ret.value > 7

\* C3: with more than 6 episodes the result is the one computed from the
\* dates of the 6 most recent episodes alone.
C3_AtMostFiveGaps ==
  (Averaged /\ Cardinality(EpisodeStarts(DaySet(call.dates))) > 6) =>
    ret.value = GetAverageCycleLength(RecentSixEpisodes(call.dates))

\* eight episodes, the two oldest outside the window
C3_Witness ==
  /\ Averaged
  /\ Cardinality(EpisodeStarts(DaySet(call.dates))) >= 8
  /\ Len(RecentSixEpisodes(call.dates)) < Len(call.dates)
  /\ ret.value > 7

\* C4: a call to getAverageCycleLength, or to getPrediction which passes
\* allDates on to it, leaves the caller's list as it was, the same elements
\* in the same order.
C4_CallerListUnchanged ==
  /\ Averaged => dates = call.dates
  /\ call.op = "getPrediction" => dates = call.allDates

RECURSIVE Flatten(_)
Flatten(ps) == IF ps = <<>> THEN <<>> ELSE Head(ps) \o Flatten(Tail(ps))

Count(s, x) == Cardinality({ i \in DOMAIN s : s[i] = x })

\* the list the last grouping was given
GroupedInput ==
  IF call.op = "loadData" THEN call.saved
  ELSE IF call.op = "getAverageCycleLength" THEN call.dates
  ELSE IF call.op = "getPrediction" THEN call.allDates
  ELSE <<>>

\* C5: grouping a non-empty list partitions it into maximal runs: every
\* entry lies in exactly one episode, neighbours inside an episode are at
\* most 7 days apart, the oldest date of an episode lies more than 7 days
\* after the newest date of the next older one, and one date alone gives
\* one singleton episode.
C5_EpisodesPartition ==
  /\ (call.op = "loadData" /\ Len(GroupedInput) >= 1) => periods # <<>>
  /\ (call.op = "getAverageCycleLength" /\ Len(GroupedInput) >= 2) => periods # <<>>
  /\ (periods # <<>> /\ call.op \in { "loadData", "getAverageCycleLength", "getPrediction" }) =>
       /\ \A i \in DOMAIN periods : periods[i] # <<>>
       /\ Len(Flatten(periods)) = Len(GroupedInput)
       /\ \A d \in Range(GroupedInput) : Count(Flatten(periods), d) = Count(GroupedInput, d)
       /\ \A i \in DOMAIN periods : \A k \in 1..(Len(periods[i]) - 1) :
            /\ DayNumber(periods[i][k]) - DayNumber(periods[i][k + 1]) >= 0
            /\ DayNumber(periods[i][k]) - DayNumber(periods[i][k + 1]) <= 7
       /\ \A i \in 1..(Len(periods) - 1) :
            DayNumber(Last(periods[i])) - DayNumber(periods[i + 1][1]) > 7
       /\ Len(periods) = Cardinality(EpisodeStarts(DaySet(GroupedInput)))
       /\ Len(GroupedInput) = 1 => periods = <<GroupedInput>>

\* loadData grouped an unsorted table into several episodes, one of them a
\* run of three days that spans more than 7 days
C5_Witness ==
  /\ call.op = "loadData"
  /\ Len(periods) >= 3
  /\ call.saved # SortDescending(call.saved)
  /\ \E i \in DOMAIN periods :
       /\ Len(periods[i]) >= 3
       /\ DayNumber(periods[i][1]) - DayNumber(Last(periods[i])) > 7

\* C6: grouping is idempotent: the episodes flattened into one list and
\* grouped again are the same episodes in the same order.
C6_GroupingIdempotent ==
  periods # <<>> => GroupPeriods(SortDescending(Flatten(periods))) = periods

\* several episodes, one with more than one entry
C6_Witness ==
  /\ Averaged
  /\ Len(periods) >= 3
  /\ \E i \in DOMAIN periods : Len(periods[i]) >= 2
  /\ Len(Flatten(periods)) > Len(periods)

\* C7: the result depends only on the set of dates: any order of the list
\* and any repetition of its dates give the result of the plain set.
C7_DependsOnSetOnly ==
  Averaged => ret.value = GetAverageCycleLength(AscendingDates(Range(call.dates)))

\* a list with a repeated date that is neither ascending nor descending and
\* spans two episodes
C7_Witness ==
  /\ Averaged
  /\ Len(call.dates) > Cardinality(Range(call.dates))
  /\ \E i \in 1..(Len(call.dates) - 1) : DayNumber(call.dates[i]) < DayNumber(call.dates[i + 1])
  /\ \E i \in 1..(Len(call.dates) - 1) : DayNumber(call.dates[i]) > DayNumber(call.dates[i + 1])
  /\ Cardinality(EpisodeStarts(DaySet(call.dates))) = 2
  /\ ret.value # 28

(***************************************************************************)
(* Forecast claims                                                         *)
(***************************************************************************)
\* a rendered date names a day that exists in the calendar
IsCalendarDate(s) ==
  s.month \in 1..12 /\ s.day >= 1 /\ s.day <= DaysInMonth(s.year, s.month)

LocaleDayNumber(s) == MakeDay(s.year, s.month, s.day)

\* the cycle length of a call: the argument, or 28 when it is omitted
GivenOr28(cycleLength) == IF cycleLength = <<>> THEN 28 ELSE cycleLength[1]

\* C8: getOvulationDay(start, L) is the day start + (L - 14) for every L,
\* 0 and values below 14 included, and start + 14 when L is omitted.
C8_OvulationOffset ==
  call.op = "getOvulationDay" =>
    /\ IsCalendarDate(ret.value)
    /\ LocaleDayNumber(ret.value) =
         DayNumber(call.startDate) + (GivenOr28(call.cycleLength) - 14)

\* C9: getFertilityWindow(start, L) ends on getOvulationDay(start, L), names
\* that day as ovulationDay, and starts 5 days before it, also across a
\* month boundary.
C9_FertilityWindow ==
  call.op = "getFertilityWindow" =>
    /\ ret.value.end = GetOvulationDay(call.startDate, call.cycleLength)
    /\ ret.value.ovulationDay = GetOvulationDay(call.startDate, call.cycleLength)
    /\ IsCalendarDate(ret.value.start)
    /\ LocaleDayNumber(ret.value.start) = LocaleDayNumber(ret.value.end) - 5

\* the ovulation day falls in the first 5 days of January, the window starts
\* in December of the year before
C9_Witness ==
  /\ call.op = "getFertilityWindow"
  /\ call.cycleLength # <<>>
  /\ ret.value.end.day <= 5
  /\ ret.value.end.month = 1
  /\ ret.value.start.month = 12
  /\ ret.value.start.year = ret.value.end.year - 1

\* C10: getPrediction returns cycleLength = getAverageCycleLength(allDates),
\* the date start + cycleLength days, and days = forecast day - today's day,
\* negative exactly when the forecast day lies before today.
C10_Prediction ==
  call.op = "getPrediction" =>
    /\ ret.value.cycleLength = GetAverageCycleLength(call.allDates)
    /\ IsCalendarDate(ret.value.date)
    /\ LocaleDayNumber(ret.value.date) = DayNumber(call.startDate) + ret.value.cycleLength
    /\ ret.value.days = LocaleDayNumber(ret.value.date) - (call.today \div HoursPerDay)
    /\ (ret.value.days < 0) <=> (LocaleDayNumber(ret.value.date) < call.today \div HoursPerDay)

\* an overdue forecast read in the middle of a day, from a measured cycle
C10_Witness ==
  /\ call.op = "getPrediction"
  /\ ret.value.cycleLength # 28
  /\ call.today % HoursPerDay # 0
  /\ ret.value.days < 0
  /\ ret.value.days > 0 - 4

(***************************************************************************)
(* Cycle day and classification claims                                     *)
(***************************************************************************)
\* the call was given a start that is a date and, if any, a date to refer to
DatesGiven ==
  /\ IsDateString(call.startDate)
  /\ call.currentDate # <<>> => IsDateString(call.currentDate[1])

\* the day number of the reference date of the call: the date given, or the
\* day of the clock reading
ReferenceDay ==
  IF call.currentDate # <<>> THEN DayNumber(call.currentDate[1])
  ELSE call.now[1] \div HoursPerDay

\* C11: getCurrentCycleDay(start, ref) = (whole days from start to ref) + 1
\* for every pair of dates: 1 when ref = start, at least 1 when ref is on
\* or after start, and 0 or negative, not clamped, when ref precedes start.
C11_CycleDayUnclamped ==
  (call.op = "getCurrentCycleDay" /\ DatesGiven) =>
    /\ ret.value = ReferenceDay - DayNumber(call.startDate) + 1
    /\ call.currentDate = <<call.startDate>> => ret.value = 1
    /\ ReferenceDay >= DayNumber(call.startDate) => ret.value >= 1
    /\ ReferenceDay < DayNumber(call.startDate) => ret.value <= 0

\* a reference date in the year before the start: the result is far below 0
C11_Witness ==
  /\ call.op = "getCurrentCycleDay"
  /\ DatesGiven
  /\ call.currentDate # <<>>
  /\ call.currentDate[1][1] < call.startDate[1]
  /\ ret.value < 0 - 30

Phases == { "Menstrual", "Follicular", "Ovulatory", "Luteal", "Extended" }

\* the days of a phase in the table of the specification
PhaseDays(phase, day) ==
  CASE phase = "Menstrual"  -> day \in 1..5
    [] phase = "Follicular" -> day \in 6..10
    [] phase = "Ovulatory"  -> day \in 11..14
    [] phase = "Luteal"     -> day \in 15..28
    [] phase = "Extended"   -> day > 28

\* C12: every positive cycle day lies in exactly one phase (1..5 Menstrual,
\* 6..10 Follicular, 11..14 Ovulatory, 15..28 Luteal, above 28 Extended),
\* getCyclePhase returns it, and getCycleInfo reports it for the cycle day
\* it computes.
C12_PhasePartition ==
  /\ (call.op = "getCyclePhase" /\ call.cycleDay >= 1) =>
       /\ Cardinality({ p \in Phases : PhaseDays(p, call.cycleDay) }) = 1
       /\ ret.value \in Phases
       /\ PhaseDays(ret.value, call.cycleDay)
  /\ (call.op = "getCycleInfo" /\ DatesGiven) =>
       /\ ret.value.cycleDay = ReferenceDay - DayNumber(call.startDate) + 1
       /\ ret.value.cycleDay >= 1 =>
            /\ ret.value.phase \in Phases
            /\ PhaseDays(ret.value.phase, ret.value.cycleDay)

\* getCycleInfo on a day past day 28 of the cycle
C12_Witness ==
  /\ call.op = "getCycleInfo"
  /\ DatesGiven
  /\ ret.value.cycleDay > 28
  /\ ret.value.phase = "Extended"

Chances == { "High", "Medium", "Low" }

\* the days of a pregnancy-chance tier in the table of the specification
ChanceDays(chance, day) ==
  CASE chance = "High"   -> day \in 11..17
    [] chance = "Medium" -> day \in 8..10 \/ day \in 18..20
    [] chance = "Low"    -> day \in 1..7 \/ day >= 21

\* C13: every positive cycle day has exactly one pregnancy chance, decided
\* by the day alone: High for 11..17, Medium for 8..10 and 18..20, Low
\* otherwise; every Ovulatory day is High and days 15..17 are Luteal and High.
C13_ChanceByDayAlone ==
  /\ (call.op = "getPregnancyChance" /\ call.cycleDay >= 1) =>
       /\ Cardinality({ c \in Chances : ChanceDays(c, call.cycleDay) }) = 1
       /\ ret.value \in Chances
       /\ ChanceDays(ret.value, call.cycleDay)
  /\ (call.op = "getCycleInfo" /\ DatesGiven /\ ret.value.cycleDay >= 1) =>
       /\ ret.value.pregnancyChance \in Chances
       /\ ChanceDays(ret.value.pregnancyChance, ret.value.cycleDay)
       /\ ret.value.phase = "Ovulatory" => ret.value.pregnancyChance = "High"
       /\ ret.value.cycleDay \in 15..17 =>
            ret.value.phase = "Luteal" /\ ret.value.pregnancyChance = "High"

\* getCycleInfo on a Luteal day with a High chance
C13_Witness ==
  /\ call.op = "getCycleInfo"
  /\ DatesGiven
  /\ ret.value.cycleDay \in 15..17
  /\ ret.value.phase = "Luteal"
  /\ ret.value.pregnancyChance = "High"

\* C14: a call of getCurrentCycleDay or getCycleInfo whose start date or
\* reference date is not a date reports an error and returns no value.
C14_FailsOnUnparsableDate ==
  (call.op \in { "getCurrentCycleDay", "getCycleInfo" } /\ ~DatesGiven) =>
    ret.op = "error"

(***************************************************************************)
(* Calendar screen claims                                                  *)
(***************************************************************************)
\* the start of the most recent episode of a non-empty set of day numbers
MostRecentStart(D) == CHOOSE d \in EpisodeStarts(D) : \A e \in EpisodeStarts(D) : e <= d

\* the day numbers start + k * cycleLength + j for k = 1..3 and j = 0..4
PredictedDays(start, cycleLength) ==
  { start + k * cycleLength + j : k \in 1..3, j \in 0..4 }

\* the day numbers of the keys that carry the dashed border
DashedDays(marks) == { DayNumber(d) : d \in { k \in DOMAIN marks : marks[k].borderStyle = "dashed" } }

\* the key is a day of the calendar
IsCalendarKey(d) == d[2] \in 1..12 /\ d[3] \in 1..DaysInMonth(d[1], d[2])

\* C16: after loadData over a non-empty table every logged date is still
\* marked selected with the period style (today only gains a border), and
\* the dashed prediction style sits exactly on the days
\* start + k * cycleLength + j, k = 1..3, j = 0..4, that are not logged.
C16_PredictionsSpareLoggedDays ==
  (call.op = "loadData" /\ Len(call.saved) > 0) =>
    LET logged      == Range(call.saved)
        start       == MostRecentStart(DaySet(call.saved))
        cycleLength == GetAverageCycleLength(call.saved)
    IN  /\ \A d \in logged :
             /\ d \in DOMAIN baseMarkedDates
             /\ baseMarkedDates[d] =
                  IF d = currentDate
                  THEN [PeriodMark EXCEPT !.borderWidth = "2", !.borderColor = "black"]
                  ELSE PeriodMark
        /\ \A d \in DOMAIN baseMarkedDates : IsCalendarKey(d)
        /\ DashedDays(baseMarkedDates) = PredictedDays(start, cycleLength) \ DaySet(call.saved)
        /\ \A d \in DOMAIN baseMarkedDates :
             baseMarkedDates[d].borderStyle = "dashed" => baseMarkedDates[d] = PredictionMark

\* a logged day lies on a predicted day and keeps the period style, while
\* other predicted days are dashed
C16_Witness ==
  /\ call.op = "loadData"
  /\ Len(call.saved) > 0
  /\ \E d \in Range(call.saved) :
       /\ DayNumber(d) \in PredictedDays(MostRecentStart(DaySet(call.saved)),
                                         GetAverageCycleLength(call.saved))
       /\ baseMarkedDates[d] = PeriodMark
  /\ Cardinality(DashedDays(baseMarkedDates)) = 14

\* the day numbers of the dates the last completed loadData found stored
LoadedDays == { DayNumber(d) : d \in DOMAIN selectedDates }

\* C15: the screen never holds a cycle day of 0 or below, and once the
\* updates are committed and the effects have run cycleDay is null when no
\* dates are stored or when the selected date precedes the start of the
\* most recent episode, and is otherwise (days from that start to the
\* selected date) + 1, at least 1.
C15_CycleDayGuarded ==
  /\ cycleDay # <<>> => cycleDay[1] >= 1
  /\ Settled =>
       IF LoadedDays = {} THEN cycleDay = <<>>
       ELSE IF DayNumber(selectedDate) < MostRecentStart(LoadedDays) THEN cycleDay = <<>>
       ELSE cycleDay = <<DayNumber(selectedDate) - MostRecentStart(LoadedDays) + 1>>

\* a day pressed before the start of the most recent episode of a stored
\* table: the selection effect has run and left no cycle day
C15_Witness ==
  /\ call.op = "effects"
  /\ "info" \in call.ran
  /\ Settled
  /\ LoadedDays # {}
  /\ DayNumber(selectedDate) < MostRecentStart(LoadedDays)
  /\ selectedDate # currentDate
  /\ cycleDay = <<>>

\* C18: a read of the table by loadData during a running savePeriodDates
\* finds the complete set stored before the save or the complete set being
\* saved, and after a failed save the table holds what it held before.
\* Fails: the tab focused between the delete and the insert reads an empty
\* table, and a rejected insert leaves the table empty.
C18_SaveReplacesAsAWhole ==
  /\ (call.op = "focus" /\ save # Idle) =>
       Range(call.saved) \in { Range(save.stored), Range(save.dates) }
  /\ (call.op = "savePeriodDates" /\ call.failed) => store = call.stored

(***************************************************************************)
(* Statistics claims                                                       *)
(***************************************************************************)
RECURSIVE SumPeriodLengths(_)
SumPeriodLengths(h) ==
  IF h = <<>> THEN 0 ELSE Head(h).periodLength + SumPeriodLengths(Tail(h))

\* C17: over a non-empty table the history has one entry per episode, most
\* recent first; exactly the entry at index 0 is "In progress" and every
\* other entry holds the days from its episode start to the start of the
\* next newer episode; completedCycles is the number of episodes minus 1
\* and the periodLength values add up to the number of stored dates.
C17_HistoryNewestFirst ==
  (call.op = "loadStatistics" /\ Len(call.saved) > 0) =>
    LET st == DescendingSeq(EpisodeStarts(DaySet(call.saved)))
    IN  /\ Len(cycleHistory) = Len(st)
        /\ \A k \in 1..Len(st) :
             /\ cycleHistory[k].startDate =
                  [month |-> MonthNames[MonthOfDay(st[k])], day |-> DateOfDay(st[k])]
             /\ (cycleHistory[k].cycleLength.typeof = "string") <=> (k = 1)
             /\ k = 1 => cycleHistory[k].cycleLength.value = "In progress"
             /\ k > 1 => /\ cycleHistory[k].cycleLength.typeof = "number"
                         /\ cycleHistory[k].cycleLength.value = st[k - 1] - st[k]
        /\ completedCycles = Len(st) - 1
        /\ SumPeriodLengths(cycleHistory) = Len(call.saved)

\* a table stored out of order with at least 3 episodes, one of several days
C17_Witness ==
  /\ call.op = "loadStatistics"
  /\ call.saved # SortDescending(call.saved)
  /\ Len(cycleHistory) >= 3
  /\ \E k \in 2..Len(cycleHistory) : cycleHistory[k].periodLength >= 2
  /\ cycleHistory[1].cycleLength.typeof = "string"
  /\ cycleHistory[2].cycleLength.value # cycleHistory[3].cycleLength.value

(***************************************************************************)
(* Range of the average and the fixed luteal phase                         *)
(***************************************************************************)
\* the days between the starts of the periods i + 1 and i the call grouped
StartGap(i) == DayNumber(Last(periods[i])) - DayNumber(Last(periods[i + 1]))

\* C19: getAverageCycleLength returns a positive integer; with at least 2
\* episodes every gap between consecutive episode starts exceeds 7 days and
\* the result lies between the smallest and the largest of the at most 5
\* gaps considered, so it is at least 8.
C19_AverageWithinGaps ==
  Averaged =>
    /\ ret.value \in Nat
    /\ ret.value >= 1
    /\ Len(periods) >= 2 =>
         /\ \A i \in 1..(Len(periods) - 1) : StartGap(i) > 7
         /\ \E i \in 1..Min(Len(periods) - 1, 5) : StartGap(i) <= ret.value
         /\ \E i \in 1..Min(Len(periods) - 1, 5) : StartGap(i) >= ret.value
         /\ ret.value >= 8

\* gaps of different lengths, a period of several days among the older
\* ones, and a result strictly between the smallest and the largest gap
C19_Witness ==
  /\ Averaged
  /\ Len(periods) >= 4
  /\ \E i \in 2..Len(periods) : Len(periods[i]) >= 2
  /\ \E i \in 1..Min(Len(periods) - 1, 5) : StartGap(i) < ret.value
  /\ \E i \in 1..Min(Len(periods) - 1, 5) : StartGap(i) > ret.value

\* C20: with L = getAverageCycleLength(allDates), the forecast date of
\* getPrediction(start, allDates) is 14 days after getOvulationDay(start, L),
\* and the window of getFertilityWindow(start, L) ends 14 days and starts
\* 19 days before the forecast date.
C20_FixedLutealPhase ==
  call.op = "getPrediction" =>
    LET L        == ret.value.cycleLength
        forecast == LocaleDayNumber(ret.value.date)
        window   == GetFertilityWindow(call.startDate, <<L>>)
    IN  /\ L = GetAverageCycleLength(call.allDates)
        /\ forecast = LocaleDayNumber(GetOvulationDay(call.startDate, <<L>>)) + 14
        /\ LocaleDayNumber(window.end) = forecast - 14
        /\ LocaleDayNumber(window.start) = forecast - 19

\* a measured cycle other than 28 days whose forecast lies in the month
\* after the ovulation day
C20_Witness ==
  /\ call.op = "getPrediction"
  /\ ret.value.cycleLength # 28
  /\ ret.value.cycleLength > 14
  /\ GetOvulationDay(call.startDate, <<ret.value.cycleLength>>).month # ret.value.date.month

====
